---- MODULE Spec2Model ----
(***************************************************************************)
(* HeartBot-AI: the token monitoring loop of HeartBot (src/src/index.ts,   *)
(* second snapshot, lines 413-913) over PumpFunService (src/unnamed/       *)
(* part_004, lines 200-494) and TelegramService.matchesFilter              *)
(* (src/unnamed/part_006).                                                 *)
(*                                                                         *)
(* Time is wall-clock milliseconds (Date.now()).  The clock advances in    *)
(* steps of the axios timeout (30 s); the interval timer fires when its    *)
(* period has elapsed and a pending feed request is answered (or times     *)
(* out) no later than its timeout.  Every other await (filter query,       *)
(* alert delivery) may take arbitrarily long.                              *)
(***************************************************************************)
EXTENDS Integers, Sequences, FiniteSets, TLC

\* ---------------------------------------------------------------- bounds
MaxClockSteps == 4      \* clock steps explored after construction
MaxTicks == 1           \* timer callbacks that may be in flight at once
MaxTimers == 2          \* interval timers that may be live at once
MaxBatch == 2           \* records in one feed response
MaxInits == 1           \* start() bodies suspended in telegram.start() at once
MaxOverlap == 2         \* callbacks in flight at once where ticks may overlap

\* ------------------------------------------------------------- constants
FetchTimeoutMs == 30000             \* axios timeout of getNewTokens
IntervalMs == 60000                 \* setInterval period
LookbackMs == 15 * 60 * 1000        \* resetLastCheckedTimestamp look-back
maxRetries == 3                     \* retry loop bound of a tick
baseDelay == 2000                   \* first back-off of the retry loop
RetentionMs == 3600000              \* age beyond which getNewTokens clears the seen-sets
ClockStep == FetchTimeoutMs
Epoch == LookbackMs                 \* Date.now() at construction
Horizon == Epoch + MaxClockSteps * ClockStep

Users == {"u1", "u2"}
Addrs == {"T1", "T2"}
NoAddr == "none"                    \* a feed record without tokenAddress/address
Null == -1                          \* SQL NULL / undefined of a numeric field

VARIABLES
    now,                    \* Date.now()
    monitoringEnabled,      \* HeartBot.monitoringEnabled: Map in insertion order
    monitoringIntervalId,   \* HeartBot.monitoringIntervalId (0: undefined)
    isRunning,              \* HeartBot.isRunning
    isInitialized,          \* HeartBot.isInitialized
    initializationPromise,  \* HeartBot.initializationPromise is set (non-null)
    initBodies,             \* start() bodies suspended at await telegram.start()
    timers,                 \* Node's live intervals: id -> next firing time (0: not live)
    lastCheckedTimestamp,   \* PumpFunService.lastCheckedTimestamp
    lastSeenTokens,         \* PumpFunService.lastSeenTokens: userId -> Set of addresses
    created,                \* the exchange: address -> launch time (0: not launched yet);
                            \* T2 was launched shortly before construction
    ticks,                  \* invocations of the interval callback, by slot
    alerts,                 \* the (user, address, filter) triples sendTokenAlert was called for
    matchCall               \* a matchesFilter call looked at on its own: its arguments and result

vars == <<now, monitoringEnabled, monitoringIntervalId, isRunning, isInitialized,
          initializationPromise, initBodies, timers, lastCheckedTimestamp,
          lastSeenTokens, created, ticks, alerts, matchCall>>

TimerIds == 1..MaxTimers
\* No matchesFilter call is looked at on its own.
NoCall == [done |-> TRUE]
\* The slots of the interval callback: MaxTicks of them in Init.
TickIds == DOMAIN ticks

\* ------------------------------------------------- Map<string, boolean>
\* A Map is a sequence of [k, v] entries in insertion order.
MapKeys(m) == {m[i].k : i \in 1..Len(m)}

MapHas(m, u) == u \in MapKeys(m)

\* Map.get(u) used as a condition: undefined and false are both falsy.
MapGet(m, u) == \E i \in 1..Len(m) : m[i].k = u /\ m[i].v

\* Map.set keeps the position of an existing key and appends a new one.
MapSet(m, u, v) ==
    IF MapHas(m, u)
    THEN [i \in 1..Len(m) |-> IF m[i].k = u THEN [k |-> u, v |-> v] ELSE m[i]]
    ELSE Append(m, [k |-> u, v |-> v])

\* Array.from(map.entries()).filter(([_, enabled]) => enabled).map(([userId]) => userId)
ActiveUsers(m) ==
    LET keep(e) == e.v
        F[i \in 0..Len(m)] ==
            IF i = 0 THEN <<>>
            ELSE IF keep(m[i]) THEN Append(F[i - 1], m[i].k) ELSE F[i - 1]
    IN F[Len(m)]

getActiveMonitoringCount(m) == Cardinality({i \in 1..Len(m) : m[i].v})

\* ------------------------------------------------------- HeartBot state
\* The fields the control methods read and write, as one record.  resets counts
\* the resetLastCheckedTimestamp calls made on the way from the current state.
HB == [monitoringEnabled |-> monitoringEnabled,
       monitoringIntervalId |-> monitoringIntervalId,
       isRunning |-> isRunning,
       isInitialized |-> isInitialized,
       timers |-> timers,
       lastCheckedTimestamp |-> lastCheckedTimestamp,
       lastSeenTokens |-> lastSeenTokens,
       resets |-> 0]

LiveTimers(tm) == {id \in TimerIds : tm[id] # 0}

FreeTimers(tm) == TimerIds \ LiveTimers(tm)

clearInterval(tm, id) == [x \in TimerIds |-> IF x = id THEN 0 ELSE tm[x]]

\* setInterval(cb, 60000) at time t: a fresh timer whose first firing is a period away.
setInterval(tm, t) ==
    LET id == CHOOSE x \in FreeTimers(tm) : \A y \in FreeTimers(tm) : x <= y
    IN [id |-> id, timers |-> [tm EXCEPT ![id] = t + IntervalMs]]

resetLastCheckedTimestamp(s, t) ==
    [s EXCEPT !.lastCheckedTimestamp = t - LookbackMs,
              !.lastSeenTokens = [u \in Users |-> {}],
              !.resets = @ + 1]

\* Variant: the id is forgotten and the interval is left running.
cleanupKeepsTimer(s) == [s EXCEPT !.monitoringIntervalId = 0]

cleanup(s) ==
    IF s.monitoringIntervalId # 0
    THEN [s EXCEPT !.timers = clearInterval(s.timers, s.monitoringIntervalId),
                   !.monitoringIntervalId = 0]
    ELSE s

startTokenMonitoring(s, t) ==
    LET s1 == cleanup(s)
        s2 == resetLastCheckedTimestamp(s1, t)
    IN IF s2.monitoringIntervalId # 0 THEN s2
       ELSE IF Len(ActiveUsers(s2.monitoringEnabled)) = 0 THEN s2
       ELSE LET armed == setInterval(s2.timers, t)
            IN [s2 EXCEPT !.isRunning = TRUE,
                          !.monitoringIntervalId = armed.id,
                          !.timers = armed.timers]

startMonitoringLoop(s, t) ==
    IF ~s.isInitialized THEN s ELSE startTokenMonitoring(s, t)

enableMonitoring(s, u, t) ==
    IF MapGet(s.monitoringEnabled, u) THEN s
    ELSE LET s1 == [s EXCEPT !.monitoringEnabled = MapSet(@, u, TRUE)]
         IN IF s1.monitoringIntervalId = 0 THEN startMonitoringLoop(s1, t) ELSE s1

\* Variant: the flag is cleared and the loop is left as it is.
disableMonitoringKeepsTimer(s, u, t) ==
    [s EXCEPT !.monitoringEnabled = MapSet(@, u, FALSE)]

disableMonitoring(s, u, t) ==
    LET s1 == [s EXCEPT !.monitoringEnabled = MapSet(@, u, FALSE)]
    IN IF Len(ActiveUsers(s1.monitoringEnabled)) = 0 /\ s1.monitoringIntervalId # 0
       THEN resetLastCheckedTimestamp(
                [s1 EXCEPT !.timers = clearInterval(s1.timers, s1.monitoringIntervalId),
                           !.monitoringIntervalId = 0,
                           !.isRunning = FALSE], t)
       ELSE s1

\* The successor state holds the fields of record r.
Becomes(r) ==
    /\ monitoringEnabled' = r.monitoringEnabled
    /\ monitoringIntervalId' = r.monitoringIntervalId
    /\ isRunning' = r.isRunning
    /\ isInitialized' = r.isInitialized
    /\ timers' = r.timers
    /\ lastCheckedTimestamp' = r.lastCheckedTimestamp
    /\ lastSeenTokens' = r.lastSeenTokens

\* An arming call needs a timer id the model still has.
CanArm == FreeTimers(timers) # {} \/ monitoringIntervalId # 0

\* ------------------------------------------------------ JavaScript values
NaN == Null - 1                     \* parseFloat of an unparseable string

\* A number used as a condition: 0, NaN, null and undefined are falsy.
Truthy(x) == x # 0 /\ x # NaN /\ x # Null

\* parseFloat(x || '0') on a number or numeric string, absent, or unparseable.
ParseFloatOr0(x) == IF x = Null THEN 0 ELSE x

Mul(a, b) == IF a = NaN \/ b = NaN THEN NaN ELSE a * b

\* a < b and a > b are false when either side is NaN.
Lt(a, b) == a # NaN /\ b # NaN /\ a < b

Gt(a, b) == a # NaN /\ b # NaN /\ a > b

\* ------------------------------------------------------------- the feed
\* What a listing of token a carries besides address and timestamp: T1 is
\* listed with liquidity 5 and no price, T2 with liquidity 2 and price 1, and
\* either may be listed before it has any liquidity.
Shapes(a) ==
    { IF a = "T1"
      THEN [liquidity |-> 5, priceUsd |-> Null, fullyDilutedValuation |-> Null]
      ELSE [liquidity |-> 2, priceUsd |-> 1, fullyDilutedValuation |-> Null],
      [liquidity |-> 0, priceUsd |-> 1, fullyDilutedValuation |-> Null] }

Launched(cr) == {a \in Addrs : cr[a] # 0}

\* The records the provider can list at a moment: every launched token with its
\* creation time, in any shape, and a record that carries no address.
FeedRecords(cr, t) ==
    UNION { { [tokenAddress |-> a, timestamp |-> cr[a], liquidity |-> sh.liquidity,
               priceUsd |-> sh.priceUsd,
               fullyDilutedValuation |-> sh.fullyDilutedValuation] :
                  sh \in Shapes(a) } : a \in Launched(cr) }
    \cup { [tokenAddress |-> NoAddr, timestamp |-> t, liquidity |-> 2,
            priceUsd |-> 1, fullyDilutedValuation |-> Null] }

\* response.data: a list of at most MaxBatch records, repetitions allowed.
Batches(cr, t) ==
    UNION { [1..n -> FeedRecords(cr, t)] : n \in 0..MaxBatch }

\* The feed with every kind of liquidity field: a listing may also carry no
\* liquidity at all, or one that parseFloat cannot read.
ListedRecords(cr, t) ==
    FeedRecords(cr, t)
    \cup { [tokenAddress |-> a, timestamp |-> cr[a], liquidity |-> l,
             priceUsd |-> 1, fullyDilutedValuation |-> Null] :
               a \in Launched(cr), l \in {Null, NaN} }

\* Feed records of one token in every combination of the optional fields the
\* TokenData is built from: launched now or ten minutes ago, holders count,
\* trading status and dev holdings present or absent.
MatchRecords(t) ==
    { [tokenAddress |-> "T1", timestamp |-> ts, liquidity |-> l, priceUsd |-> 1,
       fullyDilutedValuation |-> Null, holdersCount |-> h, tradingEnabled |-> te,
       devTokensPercentage |-> dv] :
          ts \in {t - 10 * 60 * 1000, t}, l \in {2, 5}, h \in {Null, 5, 50},
          te \in {"undefined", "true", "false"}, dv \in {Null, 30} }

ListedBatches(cr, t) ==
    UNION { [1..n -> ListedRecords(cr, t)] : n \in 0..MaxBatch }

\* --------------------------------------------------------- PumpFunService
calculateContractAge(launchTimestamp, t) == (t - launchTimestamp) \div (1000 * 60)

\* token[name], or absent when the record does not carry the field.
Field(token, name, absent) == IF name \in DOMAIN token THEN token[name] ELSE absent

\* Variant: holders, trading status and dev holdings are copied as the record
\* carries them, an absent field staying undefined.
TokenDataAsListed(token, t) ==
    LET priceUsd == ParseFloatOr0(token.priceUsd)
        liquidity == ParseFloatOr0(token.liquidity)
        fdv == IF Truthy(token.fullyDilutedValuation)
               THEN token.fullyDilutedValuation
               ELSE IF Truthy(priceUsd) /\ Truthy(liquidity)
                    THEN Mul(priceUsd, liquidity)
                    ELSE Mul(liquidity, 2)
    IN [address |-> token.tokenAddress,
        marketCap |-> fdv,
        liquidity |-> liquidity,
        holdersCount |-> Field(token, "holdersCount", Null),
        tradingEnabled |-> Field(token, "tradingEnabled", "undefined"),
        contractAge |-> calculateContractAge(token.timestamp, t),
        devTokensPercentage |-> Field(token, "devTokensPercentage", Null)]

\* Variant: the valuation is price times liquidity whenever the record carries
\* no fullyDilutedValuation, without the second fallback.
TokenDataPriceOnly(token, t) ==
    LET priceUsd == ParseFloatOr0(token.priceUsd)
        liquidity == ParseFloatOr0(token.liquidity)
        fdv == IF Truthy(token.fullyDilutedValuation)
               THEN token.fullyDilutedValuation
               ELSE Mul(priceUsd, liquidity)
    IN [address |-> token.tokenAddress,
        marketCap |-> fdv,
        liquidity |-> liquidity,
        holdersCount |-> ParseFloatOr0(Field(token, "holdersCount", Null)),
        tradingEnabled |-> IF Field(token, "tradingEnabled", "undefined") = "false"
                           THEN "false" ELSE "true",
        contractAge |-> calculateContractAge(token.timestamp, t),
        devTokensPercentage |-> ParseFloatOr0(Field(token, "devTokensPercentage", Null))]

\* Lines 282-300: the TokenData built from one record.  holdersCount is
\* parseInt(x || '0'), devTokensPercentage parseFloat(x || '0') and
\* tradingEnabled is x !== false, so none of them is ever undefined.
TokenDataOf(token, t) ==
    LET priceUsd == ParseFloatOr0(token.priceUsd)
        liquidity == ParseFloatOr0(token.liquidity)
        fdv == IF Truthy(token.fullyDilutedValuation)
               THEN token.fullyDilutedValuation
               ELSE IF Truthy(priceUsd) /\ Truthy(liquidity)
                    THEN Mul(priceUsd, liquidity)
                    ELSE Mul(liquidity, 2)
    IN [address |-> token.tokenAddress,
        marketCap |-> fdv,
        liquidity |-> liquidity,
        holdersCount |-> ParseFloatOr0(Field(token, "holdersCount", Null)),
        tradingEnabled |-> IF Field(token, "tradingEnabled", "undefined") = "false"
                           THEN "false" ELSE "true",
        contractAge |-> calculateContractAge(token.timestamp, t),
        devTokensPercentage |-> ParseFloatOr0(Field(token, "devTokensPercentage", Null))]

\* Variant: the seen-set is neither consulted nor filled.
AcceptRecordUnseen(acc, token, cursor, t) ==
    IF token.tokenAddress = NoAddr THEN acc
    ELSE IF token.timestamp = 0 \/ token.timestamp <= cursor THEN acc
    ELSE LET tokenData == TokenDataOf(token, t)
         IN IF Gt(tokenData.liquidity, 0)
            THEN [acc EXCEPT !.newTokens = Append(@, tokenData)]
            ELSE acc

\* Variant: a record without an address is processed like any other.
AcceptRecordNoAddress(acc, token, cursor, t) ==
    IF token.timestamp = 0 \/ token.timestamp <= cursor THEN acc
    ELSE IF token.tokenAddress \in acc.seen THEN acc
    ELSE LET tokenData == TokenDataOf(token, t)
         IN IF Gt(tokenData.liquidity, 0)
            THEN [newTokens |-> Append(acc.newTokens, tokenData),
                  seen |-> acc.seen \cup {token.tokenAddress}]
            ELSE acc

\* Variant: a record as old as the cursor is still taken.
AcceptRecordInclusive(acc, token, cursor, t) ==
    IF token.tokenAddress = NoAddr THEN acc
    ELSE IF token.timestamp = 0 \/ token.timestamp < cursor THEN acc
    ELSE IF token.tokenAddress \in acc.seen THEN acc
    ELSE LET tokenData == TokenDataOf(token, t)
         IN IF Gt(tokenData.liquidity, 0)
            THEN [newTokens |-> Append(acc.newTokens, tokenData),
                  seen |-> acc.seen \cup {token.tokenAddress}]
            ELSE acc

\* Lines 260-311, one record: acc is [newTokens, seen].
AcceptRecord(acc, token, cursor, t) ==
    IF token.tokenAddress = NoAddr THEN acc
    ELSE IF token.timestamp = 0 \/ token.timestamp <= cursor THEN acc
    ELSE IF token.tokenAddress \in acc.seen THEN acc
    ELSE LET tokenData == TokenDataOf(token, t)
         IN IF Gt(tokenData.liquidity, 0)
            THEN [newTokens |-> Append(acc.newTokens, tokenData),
                  seen |-> acc.seen \cup {token.tokenAddress}]
            ELSE acc

\* Lines 248-250: the list taken from the response body: the body itself when
\* it is an array, else its data property, else its result property, else [].
ResponseTokens(body) ==
    IF body.isArray THEN body.items
    ELSE IF body.hasData THEN body.data
    ELSE IF body.hasResult THEN body.result
    ELSE <<>>

\* The loop over the response, from the seen-set of userId.
AcceptAll(tokens, seen, cursor, t) ==
    LET F[i \in 0..Len(tokens)] ==
            IF i = 0 THEN [newTokens |-> <<>>, seen |-> seen]
            ELSE AcceptRecord(F[i - 1], tokens[i], cursor, t)
    IN F[Len(tokens)]

\* getNewTokens(userId) once the request has settled at time t.  currentTime was
\* read before the request.  response is [kind, data]; a failed request is caught
\* and answered with [] (lines 323-326), an empty list returns before the cursor
\* moves (lines 252-255).  The result: the list returned, the cursor and the
\* seen-sets afterwards; threw tells whether the call rejected, which the catch
\* of lines 323-326 rules out.  Lines 313-319: the cursor is set to currentTime
\* and then the seen-sets are cleared if currentTime is more than RetentionMs
\* past the cursor.
getNewTokens(userId, currentTime, response, cursor, seenTokens, t) ==
    IF response.kind # "ok" \/ Len(response.data) = 0
    THEN [threw |-> FALSE, newTokens |-> <<>>, lastCheckedTimestamp |-> cursor,
          lastSeenTokens |-> seenTokens]
    ELSE LET acc == AcceptAll(response.data, seenTokens[userId], cursor, t)
             lastChecked == currentTime
         IN [threw |-> FALSE, newTokens |-> acc.newTokens,
             lastCheckedTimestamp |-> lastChecked,
             lastSeenTokens |-> IF currentTime - lastChecked > RetentionMs
                                THEN [u \in Users |-> {}]
                                ELSE [seenTokens EXCEPT ![userId] = acc.seen]]

\* ----------------------------------------------------------- FilterEngine
\* TelegramService.matchesFilter.  A bound is applied when it is truthy (not
\* null, not 0) and the token field is not undefined; the trading status is
\* compared whenever the filter's value is not undefined (null is compared).
matchesFilter(token, filter) ==
    IF Truthy(filter.min_market_cap) /\ token.marketCap # Null
          /\ Lt(token.marketCap, filter.min_market_cap) THEN FALSE
    ELSE IF Truthy(filter.max_market_cap) /\ token.marketCap # Null
          /\ Gt(token.marketCap, filter.max_market_cap) THEN FALSE
    ELSE IF Truthy(filter.min_liquidity) /\ token.liquidity # Null
          /\ Lt(token.liquidity, filter.min_liquidity) THEN FALSE
    ELSE IF Truthy(filter.max_liquidity) /\ token.liquidity # Null
          /\ Gt(token.liquidity, filter.max_liquidity) THEN FALSE
    ELSE IF (Truthy(filter.min_holders) \/ Truthy(filter.max_holders))
          /\ token.holdersCount = Null THEN TRUE
    ELSE IF Truthy(filter.min_holders) /\ token.holdersCount # Null
          /\ Lt(token.holdersCount, filter.min_holders) THEN FALSE
    ELSE IF Truthy(filter.max_holders) /\ token.holdersCount # Null
          /\ Gt(token.holdersCount, filter.max_holders) THEN FALSE
    ELSE IF Truthy(filter.max_dev_tokens) /\ token.devTokensPercentage = Null THEN TRUE
    ELSE IF Truthy(filter.max_dev_tokens) /\ token.devTokensPercentage # Null
          /\ Gt(token.devTokensPercentage, filter.max_dev_tokens) THEN FALSE
    ELSE IF Truthy(filter.min_contract_age) /\ token.contractAge = Null THEN TRUE
    ELSE IF Truthy(filter.min_contract_age) /\ token.contractAge # Null
          /\ Lt(token.contractAge, filter.min_contract_age) THEN FALSE
    ELSE IF filter.trading_enabled # "undefined" /\ token.tradingEnabled # "undefined"
          /\ token.tradingEnabled # filter.trading_enabled THEN FALSE
    ELSE TRUE

\* A row of table Filter with no bound set.
NoBounds(id, user) ==
    [id |-> id, user_id |-> user,
     min_market_cap |-> Null, max_market_cap |-> Null,
     min_liquidity |-> Null, max_liquidity |-> Null,
     min_holders |-> Null, max_holders |-> Null,
     max_dev_tokens |-> Null, min_contract_age |-> Null,
     trading_enabled |-> "true"]

\* The rows handleFilterSave can insert for a subscriber: a bound the builder
\* step set, or NULL for a skipped step; trading_enabled true, false or NULL.
BuiltFilters ==
    { [id |-> 1, user_id |-> "u1",
       min_market_cap |-> a, max_market_cap |-> Null,
       min_liquidity |-> Null, max_liquidity |-> b,
       min_holders |-> c, max_holders |-> d,
       max_dev_tokens |-> e, min_contract_age |-> g,
       trading_enabled |-> te] :
          a \in {Null, 3}, b \in {Null, 4}, c \in {Null, 10}, d \in {Null, 20},
          e \in {Null, 10}, g \in {Null, 5}, te \in {"null", "true", "false"} }

\* Rows of table Filter with market-cap and liquidity bounds only.  The columns
\* are nullable numbers: a bound is NULL, 0, or a positive amount.
BoundFilters ==
    { [NoBounds(1, "u1") EXCEPT !.min_market_cap = a, !.max_market_cap = b,
                                !.min_liquidity = c, !.max_liquidity = d] :
          a \in {Null, 0, 2, 3}, b \in {Null, 0, 2, 3},
          c \in {Null, 0, 2, 3}, d \in {Null, 0, 2, 3} }

\* The rows of table Filter the runs draw the active filters from.
FilterTable ==
    << NoBounds(1, "u1"),
       [NoBounds(2, "u2") EXCEPT !.min_liquidity = 3],
       [NoBounds(3, "u1") EXCEPT !.max_holders = 100] >>

FilterIds == 1..Len(FilterTable)

\* select('*').eq('is_active', true) when the rows in S are the active ones.
ActiveFilters(S) ==
    LET F[i \in 0..Len(FilterTable)] ==
            IF i = 0 THEN <<>>
            ELSE IF i \in S THEN Append(F[i - 1], i) ELSE F[i - 1]
    IN F[Len(FilterTable)]

\* -------------------------------------------------------- the tick's loop
\* Lines 732-737: the market cap filled in when it is missing.
WithMarketCap(token) ==
    IF ~Truthy(token.marketCap) /\ Truthy(token.liquidity)
    THEN [token EXCEPT !.marketCap = Mul(token.liquidity, 2)]
    ELSE token

\* Lines 739-748: a token without liquidity or market cap is skipped.
TokenValid(token) ==
    Truthy(token.liquidity) /\ Truthy(WithMarketCap(token).marketCap)

\* Variant: the filter is evaluated whether or not its owner is enabled.
FilterEvaluatedAnyOwner(filter, enabled) ==
    ~(Truthy(filter.min_holders) \/ Truthy(filter.max_holders)
      \/ Truthy(filter.max_dev_tokens) \/ Truthy(filter.min_contract_age))

\* Lines 753-764: the filter's owner has monitoring enabled and the filter
\* sets none of the bounds that need Dexscreener data.
FilterEvaluated(filter, enabled) ==
    /\ MapGet(enabled, filter.user_id)
    /\ ~(Truthy(filter.min_holders) \/ Truthy(filter.max_holders)
         \/ Truthy(filter.max_dev_tokens) \/ Truthy(filter.min_contract_age))

\* Line 783: sendTokenAlert is called for token i and filter j.
Sends(tokens, filters, i, j, enabled) ==
    /\ TokenValid(tokens[i])
    /\ FilterEvaluated(FilterTable[filters[j]], enabled)
    /\ matchesFilter(WithMarketCap(tokens[i]), FilterTable[filters[j]])

\* The loops of lines 722-799 run from position (i, j) to the next
\* sendTokenAlert call; <<0, 0>> when they run to the end.
NextSend(tokens, filters, i, j, enabled) ==
    LET Cands == {p \in (1..Len(tokens)) \X (1..Len(filters)) :
                     /\ p[1] > i \/ (p[1] = i /\ p[2] >= j)
                     /\ Sends(tokens, filters, p[1], p[2], enabled)}
        Before(p, q) == p[1] < q[1] \/ (p[1] = q[1] /\ p[2] <= q[2])
    IN IF Cands = {} THEN <<0, 0>>
       ELSE CHOOSE p \in Cands : \A q \in Cands : Before(p, q)

\* A slot of the interval callback.  retryCount, newTokens and the loop positions
\* are the callback's locals; attempts counts its getNewTokens calls, failed names
\* the last step of it that failed, sent lists its sendTokenAlert calls and dups
\* the addresses it took as new although a seen-set held them; listed is the
\* feed response it was answered with, where a run keeps track of that.
IdleTick ==
    [pc |-> "idle", userId |-> "", currentTime |-> 0, retryCount |-> 0,
     attempts |-> 0, failed |-> "", newTokens |-> <<>>,
     filters |-> <<>>, i |-> 0, j |-> 0, sent |-> <<>>, dups |-> {},
     listed |-> <<>>, wakeAt |-> 0]

\* The callback of tick tk has returned.
EndTick(tk) ==
    [IdleTick EXCEPT !.attempts = tk.attempts, !.failed = tk.failed,
                     !.listed = tk.listed]

\* The tick in slot k runs its loops from (i, j): it either calls sendTokenAlert
\* and waits for it, or ends.
RunLoop(k, tk, i, j) ==
    LET p == NextSend(tk.newTokens, tk.filters, i, j, monitoringEnabled)
    IN IF p = <<0, 0>>
       THEN /\ ticks' = [ticks EXCEPT ![k] = EndTick(tk)]
            /\ UNCHANGED alerts
       ELSE LET key == <<FilterTable[tk.filters[p[2]]].user_id,
                         tk.newTokens[p[1]].address, tk.filters[p[2]]>>
            IN /\ ticks' = [ticks EXCEPT ![k] =
                               [tk EXCEPT !.pc = "alert", !.i = p[1], !.j = p[2],
                                          !.sent = Append(@, key)]]
               /\ alerts' = alerts \cup {key}

\* ------------------------------------------------------------------ Init
Init ==
    /\ now = Epoch
    /\ monitoringEnabled = <<>>
    /\ monitoringIntervalId = 0
    /\ isRunning = FALSE
    /\ isInitialized = FALSE
    /\ initializationPromise = FALSE
    /\ initBodies = 0
    /\ timers = [id \in TimerIds |-> 0]
    /\ lastCheckedTimestamp = Epoch - LookbackMs
    /\ lastSeenTokens = [u \in Users |-> {}]
    /\ created = [a \in Addrs |-> IF a = "T2" THEN Epoch - ClockStep ELSE 0]
    /\ ticks = [k \in 1..MaxTicks |-> IdleTick]
    /\ alerts = {}
    /\ matchCall = NoCall

\* ------------------------------------------------------- control surface
EnableMonitoring(u) ==
    /\ CanArm
    /\ Becomes(enableMonitoring(HB, u, now))
    /\ UNCHANGED <<now, initializationPromise, initBodies, created, ticks, alerts, matchCall>>

DisableMonitoring(u) ==
    /\ Becomes(disableMonitoring(HB, u, now))
    /\ UNCHANGED <<now, initializationPromise, initBodies, created, ticks, alerts, matchCall>>

StartMonitoringLoop ==
    /\ CanArm
    /\ Becomes(startMonitoringLoop(HB, now))
    /\ UNCHANGED <<now, initializationPromise, initBodies, created, ticks, alerts, matchCall>>

\* Variant: start() runs its body whether or not a promise is cached.
StartUncached ==
    /\ initBodies < MaxInits
    /\ initializationPromise' = TRUE
    /\ initBodies' = initBodies + 1
    /\ UNCHANGED <<now, monitoringEnabled, monitoringIntervalId, isRunning,
                   isInitialized, timers, lastCheckedTimestamp, lastSeenTokens,
                   created, ticks, alerts, matchCall>>

\* start() with no initialization promise: the body runs up to
\* await this.telegram.start() (the Fastify server is skipped under VERCEL).
\* With a promise set, start() returns it and changes nothing.
Start ==
    /\ ~initializationPromise
    /\ initBodies < MaxInits
    /\ initializationPromise' = TRUE
    /\ initBodies' = initBodies + 1
    /\ UNCHANGED <<now, monitoringEnabled, monitoringIntervalId, isRunning,
                   isInitialized, timers, lastCheckedTimestamp, lastSeenTokens,
                   created, ticks, alerts, matchCall>>

\* Variant: the state reset of start() leaves isRunning as it is.
TelegramStartedKeepsRunning ==
    /\ initBodies > 0
    /\ initBodies' = initBodies - 1
    /\ Becomes([cleanup(HB) EXCEPT !.monitoringEnabled = <<>>,
                                   !.isInitialized = TRUE])
    /\ UNCHANGED <<now, initializationPromise, created, ticks, alerts, matchCall>>

\* Lines 512-521: telegram.start() resolved.
TelegramStarted ==
    /\ initBodies > 0
    /\ initBodies' = initBodies - 1
    /\ Becomes([cleanup(HB) EXCEPT !.monitoringEnabled = <<>>,
                                   !.isRunning = FALSE,
                                   !.isInitialized = TRUE])
    /\ UNCHANGED <<now, initializationPromise, created, ticks, alerts, matchCall>>

\* Lines 526-528: telegram.start() rejected with error_code 429.
TelegramRateLimited ==
    /\ initBodies > 0
    /\ initBodies' = initBodies - 1
    /\ UNCHANGED <<now, monitoringEnabled, monitoringIntervalId, isRunning,
                   isInitialized, initializationPromise, timers,
                   lastCheckedTimestamp, lastSeenTokens, created, ticks, alerts, matchCall>>

\* Variant: stop() without the cleanup() call.
stopKeepsTimer(s) == [s EXCEPT !.isRunning = FALSE]

\* stop(): telegram.stop(), cleanup(), isRunning and the promise reset.
stop(s) == [cleanup(s) EXCEPT !.isRunning = FALSE]

\* Lines 535-541: telegram.start() rejected otherwise; the body resets its
\* flags and awaits stop().
TelegramFailed ==
    /\ initBodies > 0
    /\ initBodies' = initBodies - 1
    /\ initializationPromise' = FALSE
    /\ Becomes(stop([HB EXCEPT !.isRunning = FALSE, !.isInitialized = FALSE]))
    /\ UNCHANGED <<now, created, ticks, alerts, matchCall>>

Stop ==
    /\ initializationPromise' = FALSE
    /\ Becomes(stop(HB))
    /\ UNCHANGED <<now, initBodies, created, ticks, alerts, matchCall>>

\* ------------------------------------------------------------ environment
\* A token is launched on the exchange.
Launch(a) ==
    /\ created[a] = 0
    /\ created' = [created EXCEPT ![a] = now]
    /\ UNCHANGED <<now, monitoringEnabled, monitoringIntervalId, isRunning,
                   isInitialized, initializationPromise, initBodies, timers,
                   lastCheckedTimestamp, lastSeenTokens, ticks, alerts, matchCall>>

\* Variant: a feed request may stay pending for any length of time.
AdvanceNoTimeout ==
    /\ now < Horizon
    /\ \A id \in TimerIds : timers[id] # 0 => timers[id] > now
    /\ now' = now + ClockStep
    /\ UNCHANGED <<monitoringEnabled, monitoringIntervalId, isRunning,
                   isInitialized, initializationPromise, initBodies, timers,
                   lastCheckedTimestamp, lastSeenTokens, created, ticks, alerts, matchCall>>

\* The clock as in Advance, followed for an hour and some firings more.
AdvanceRetention ==
    /\ now < Epoch + RetentionMs + 3 * IntervalMs
    /\ \A id \in TimerIds : timers[id] # 0 => timers[id] > now
    /\ \A k \in TickIds : ticks[k].pc = "fetch" =>
                              ticks[k].currentTime + FetchTimeoutMs > now
    /\ now' = now + ClockStep
    /\ UNCHANGED <<monitoringEnabled, monitoringIntervalId, isRunning,
                   isInitialized, initializationPromise, initBodies, timers,
                   lastCheckedTimestamp, lastSeenTokens, created, ticks, alerts,
                   matchCall>>

\* An interval that is due fires before the clock moves on, and a feed request
\* is settled by its timeout.
Advance ==
    /\ now < Horizon
    /\ \A id \in TimerIds : timers[id] # 0 => timers[id] > now
    /\ \A k \in TickIds : ticks[k].pc = "fetch" =>
                              ticks[k].currentTime + FetchTimeoutMs > now
    /\ now' = now + ClockStep
    /\ UNCHANGED <<monitoringEnabled, monitoringIntervalId, isRunning,
                   isInitialized, initializationPromise, initBodies, timers,
                   lastCheckedTimestamp, lastSeenTokens, created, ticks, alerts, matchCall>>

\* ------------------------------------------------------ the interval callback
FreeSlots == {k \in TickIds : ticks[k].pc = "idle"}

\* Variant: the callback does not look at the active users.
TickProceedsUnguarded(running, activeUsers) == running

\* Lines 614-628: the callback goes on to the token check.
TickProceeds(running, activeUsers) == running /\ Len(activeUsers) # 0

\* activeUsers[0]: undefined on an empty array.
First(activeUsers) == IF Len(activeUsers) = 0 THEN "undefined" ELSE activeUsers[1]

\* Lines 610-642: interval id fires; the callback runs up to the feed request of
\* getNewTokens(activeUsers[0]).  With MaxTicks callbacks in flight a due firing
\* that would start another one waits for a slot.
TimerFires(id) ==
    /\ timers[id] # 0
    /\ timers[id] <= now
    /\ timers' = [timers EXCEPT ![id] = now + IntervalMs]
    /\ LET activeUsers == ActiveUsers(monitoringEnabled)
       IN IF TickProceeds(isRunning, activeUsers)
          THEN /\ FreeSlots # {}
               /\ LET k == CHOOSE x \in FreeSlots : \A y \in FreeSlots : x <= y
                  IN ticks' = [ticks EXCEPT ![k] =
                                  [IdleTick EXCEPT !.pc = "fetch",
                                                   !.userId = First(activeUsers),
                                                   !.attempts = 1,
                                                   !.currentTime = now]]
          ELSE UNCHANGED ticks
    /\ UNCHANGED <<now, monitoringEnabled, monitoringIntervalId, isRunning,
                   isInitialized, initializationPromise, initBodies,
                   lastCheckedTimestamp, lastSeenTokens, created, alerts, matchCall>>

\* Lines 654-671: the wait of the retry loop after the rejected attempt number
\* retryCount.  On status 429 it is the retry-after header in seconds (1 when
\* the header is missing) plus one second; otherwise baseDelay doubled with
\* every attempt.
RetryDelay(response, retryCount) ==
    IF response.kind = "rateLimited"
    THEN Field(response, "retryAfter", 1) * 1000 + 1000
    ELSE baseDelay * 2 ^ (retryCount - 1)

AllSeen == UNION {lastSeenTokens[u] : u \in Users}

\* Lines 639-719 after the feed request settled with response.  A rejected
\* getNewTokens call is counted and, below maxRetries, repeated after the
\* back-off; a returned list leaves the retry loop, and a non-empty one goes on
\* to the filter query.  A response of kind "rateLimited" is HTTP status 429:
\* the catch of the retry loop waits for retry-after and goes round again, which
\* ends the loop as the other errors do once retryCount is maxRetries.  keep tells
\* whether the tick keeps track of the response.  wakeAt is the end of the
\* back-off: the next attempt is made, and so settles, no earlier.
Settle(k, response, keep) ==
    LET tk == [ticks[k] EXCEPT !.failed = IF response.kind = "error" THEN "fetch"
                                          ELSE IF response.kind = "rateLimited" THEN "429"
                                          ELSE @,
                               !.listed = IF keep THEN response.data ELSE @]
        r == getNewTokens(tk.userId, tk.currentTime, response,
                          lastCheckedTimestamp, lastSeenTokens, now)
    IN /\ now >= ticks[k].wakeAt
       /\ lastCheckedTimestamp' = r.lastCheckedTimestamp
       /\ lastSeenTokens' = r.lastSeenTokens
       /\ IF r.threw
          THEN IF tk.retryCount + 1 < maxRetries
               THEN LET wake == now + RetryDelay(response, tk.retryCount + 1)
                    IN ticks' = [ticks EXCEPT ![k] =
                                    [tk EXCEPT !.retryCount = @ + 1, !.attempts = @ + 1,
                                               !.wakeAt = wake,
                                               !.currentTime = wake]]
               ELSE ticks' = [ticks EXCEPT ![k] = EndTick(tk)]
          ELSE IF Len(r.newTokens) = 0
          THEN ticks' = [ticks EXCEPT ![k] = EndTick(tk)]
          ELSE ticks' = [ticks EXCEPT ![k] =
                            [tk EXCEPT !.pc = "filters",
                                       !.newTokens = r.newTokens,
                                       !.dups = {r.newTokens[n].address :
                                                    n \in 1..Len(r.newTokens)}
                                                \cap AllSeen]]
       /\ UNCHANGED <<now, monitoringEnabled, monitoringIntervalId, isRunning,
                      isInitialized, initializationPromise, initBodies, timers,
                      created, alerts, matchCall>>

AfterFetch(k, response) == Settle(k, response, FALSE)

\* Variant: a failed request gives up on the subscriber the tick polled for.
FetchFailsDisables(k) ==
    /\ ticks[k].pc = "fetch"
    /\ ticks' = [ticks EXCEPT ![k] = EndTick([ticks[k] EXCEPT !.failed = "fetch"])]
    /\ monitoringEnabled' = MapSet(monitoringEnabled, ticks[k].userId, FALSE)
    /\ UNCHANGED <<now, monitoringIntervalId, isRunning, isInitialized,
                   initializationPromise, initBodies, timers, lastCheckedTimestamp,
                   lastSeenTokens, created, alerts, matchCall>>

\* Variant: a failed request moves the cursor to the time of the attempt.
FetchFailsMovesCursor(k) ==
    /\ ticks[k].pc = "fetch"
    /\ ticks' = [ticks EXCEPT ![k] = EndTick([ticks[k] EXCEPT !.failed = "fetch"])]
    /\ lastCheckedTimestamp' = ticks[k].currentTime
    /\ UNCHANGED <<now, monitoringEnabled, monitoringIntervalId, isRunning,
                   isInitialized, initializationPromise, initBodies, timers,
                   lastSeenTokens, created, alerts, matchCall>>

\* The feed request fails: timeout, HTTP error status, network error.
FetchFails(k) ==
    /\ ticks[k].pc = "fetch"
    /\ AfterFetch(k, [kind |-> "error", data |-> <<>>])

\* The feed request is answered with HTTP status 429.
FetchRateLimited(k) ==
    /\ ticks[k].pc = "fetch"
    /\ AfterFetch(k, [kind |-> "rateLimited", data |-> <<>>])

\* The feed answers with a list.
FetchAnswers(k) ==
    /\ ticks[k].pc = "fetch"
    /\ \E data \in Batches(created, now) :
           AfterFetch(k, [kind |-> "ok", data |-> data])

\* Variant: after a failed filter query the tick goes on as if every row of the
\* table were active.
FilterLookupFailsAssumesAll(k) ==
    /\ ticks[k].pc = "filters"
    /\ RunLoop(k, [ticks[k] EXCEPT !.failed = "filters",
                                   !.filters = ActiveFilters(FilterIds)], 1, 1)
    /\ UNCHANGED <<now, monitoringEnabled, monitoringIntervalId, isRunning,
                   isInitialized, initializationPromise, initBodies, timers,
                   lastCheckedTimestamp, lastSeenTokens, created, matchCall>>

\* Variant: a failed filter query stops the loop.
FilterLookupFailsStops(k) ==
    /\ ticks[k].pc = "filters"
    /\ ticks' = [ticks EXCEPT ![k] = EndTick([ticks[k] EXCEPT !.failed = "filters"])]
    /\ Becomes(stop(HB))
    /\ UNCHANGED <<now, initializationPromise, initBodies, created, alerts, matchCall>>

\* Lines 692-695 and 711-714: the filter query returns an error or throws.
FilterLookupFails(k) ==
    /\ ticks[k].pc = "filters"
    /\ ticks' = [ticks EXCEPT ![k] = EndTick([ticks[k] EXCEPT !.failed = "filters"])]
    /\ UNCHANGED <<now, monitoringEnabled, monitoringIntervalId, isRunning,
                   isInitialized, initializationPromise, initBodies, timers,
                   lastCheckedTimestamp, lastSeenTokens, created, alerts, matchCall>>

\* Lines 697-799: the filter query returns the active rows and the loops start.
FilterLookupAnswers(k) ==
    /\ ticks[k].pc = "filters"
    /\ \E S \in SUBSET FilterIds :
           LET filters == ActiveFilters(S)
           IN IF Len(filters) = 0
              THEN /\ ticks' = [ticks EXCEPT ![k] = EndTick(ticks[k])]
                   /\ UNCHANGED alerts
              ELSE RunLoop(k, [ticks[k] EXCEPT !.filters = filters], 1, 1)
    /\ UNCHANGED <<now, monitoringEnabled, monitoringIntervalId, isRunning,
                   isInitialized, initializationPromise, initBodies, timers,
                   lastCheckedTimestamp, lastSeenTokens, created, matchCall>>

\* sendTokenAlert resolved: the filter loop goes on with the next filter.
AlertDelivered(k) ==
    /\ ticks[k].pc = "alert"
    /\ RunLoop(k, ticks[k], ticks[k].i, ticks[k].j + 1)
    /\ UNCHANGED <<now, monitoringEnabled, monitoringIntervalId, isRunning,
                   isInitialized, initializationPromise, initBodies, timers,
                   lastCheckedTimestamp, lastSeenTokens, created, matchCall>>

\* Variant: a rejected sendTokenAlert ends the tick.
AlertFailsEndsTick(k) ==
    /\ ticks[k].pc = "alert"
    /\ ticks' = [ticks EXCEPT ![k] = EndTick([ticks[k] EXCEPT !.failed = "alert"])]
    /\ UNCHANGED <<now, monitoringEnabled, monitoringIntervalId, isRunning,
                   isInitialized, initializationPromise, initBodies, timers,
                   lastCheckedTimestamp, lastSeenTokens, created, alerts, matchCall>>

\* sendTokenAlert rejected: lines 790-793 log it and go on with the next filter.
AlertFails(k) ==
    /\ ticks[k].pc = "alert"
    /\ RunLoop(k, [ticks[k] EXCEPT !.failed = "alert"], ticks[k].i, ticks[k].j + 1)
    /\ UNCHANGED <<now, monitoringEnabled, monitoringIntervalId, isRunning,
                   isInitialized, initializationPromise, initBodies, timers,
                   lastCheckedTimestamp, lastSeenTokens, created, matchCall>>

\* ------------------------------------------------------------------ Next
\* The monitoring pipeline: the bot is started once, subscribers are enabled and
\* disabled, the interval fires and the ticks run against the feed.
Next ==
    \/ \E u \in Users : EnableMonitoring(u)
    \/ \E u \in Users : DisableMonitoring(u)
    \/ Start
    \/ TelegramStarted
    \/ \E a \in Addrs : Launch(a)
    \/ Advance
    \/ \E id \in TimerIds : TimerFires(id)
    \/ \E k \in TickIds : FetchFails(k)
    \/ \E k \in TickIds : FetchAnswers(k)
    \/ \E k \in TickIds : FilterLookupFails(k)
    \/ \E k \in TickIds : FilterLookupAnswers(k)
    \/ \E k \in TickIds : AlertDelivered(k)
    \/ \E k \in TickIds : AlertFails(k)

Spec == Init /\ [][Next]_vars

\* The lifecycle: every control method in every order, the interval firing, and a
\* feed that is down (each tick's request fails).
NextLifecycle ==
    \/ \E u \in Users : EnableMonitoring(u)
    \/ \E u \in Users : DisableMonitoring(u)
    \/ StartMonitoringLoop
    \/ Start
    \/ TelegramStarted
    \/ TelegramRateLimited
    \/ TelegramFailed
    \/ Stop
    \/ Advance
    \/ \E id \in TimerIds : TimerFires(id)
    \/ \E k \in TickIds : FetchFails(k)

SpecLifecycle == Init /\ [][NextLifecycle]_vars

\* The interval callback on its own: it is run in every value of the two fields
\* its guard reads, with an interval that is due, against a feed that is down.
AllMaps ==
    {m \in UNION {[1..n -> [k : Users, v : BOOLEAN]] : n \in 0..Cardinality(Users)} :
        \A i, j \in 1..Len(m) : i # j => m[i].k # m[j].k}

InitGuard ==
    /\ now = Epoch
    /\ monitoringEnabled \in AllMaps
    /\ monitoringIntervalId = 1
    /\ isRunning \in BOOLEAN
    /\ isInitialized = TRUE
    /\ initializationPromise = TRUE
    /\ initBodies = 0
    /\ timers = [id \in TimerIds |-> IF id = 1 THEN Epoch ELSE 0]
    /\ lastCheckedTimestamp = Epoch - LookbackMs
    /\ lastSeenTokens = [u \in Users |-> {}]
    /\ created = [a \in Addrs |-> IF a = "T2" THEN Epoch - ClockStep ELSE 0]
    /\ ticks = [k \in 1..MaxTicks |-> IdleTick]
    /\ alerts = {}
    /\ matchCall = NoCall

NextGuard ==
    \/ Advance
    \/ \E id \in TimerIds : TimerFires(id)
    \/ \E k \in TickIds : FetchFails(k)

SpecGuard == InitGuard /\ [][NextGuard]_vars

\* The token check on its own: the bot is started, both subscribers are enabled
\* and the loop was armed at construction; tokens are launched, the interval
\* fires, and every tick keeps track of the response it was answered with.
InitFeed ==
    /\ now = Epoch
    /\ monitoringEnabled = <<[k |-> "u1", v |-> TRUE], [k |-> "u2", v |-> TRUE]>>
    /\ monitoringIntervalId = 1
    /\ isRunning = TRUE
    /\ isInitialized = TRUE
    /\ initializationPromise = TRUE
    /\ initBodies = 0
    /\ timers = [id \in TimerIds |-> IF id = 1 THEN Epoch + IntervalMs ELSE 0]
    /\ lastCheckedTimestamp = Epoch - LookbackMs
    /\ lastSeenTokens = [u \in Users |-> {}]
    /\ created = [a \in Addrs |-> IF a = "T2" THEN Epoch - ClockStep ELSE 0]
    /\ ticks = [k \in 1..MaxTicks |-> IdleTick]
    /\ alerts = {}
    /\ matchCall = NoCall

\* The feed answers with a list, which the tick keeps track of.
FetchListed(k) ==
    /\ ticks[k].pc = "fetch"
    /\ \E data \in ListedBatches(created, now) :
           Settle(k, [kind |-> "ok", data |-> data], TRUE)

NextFeed ==
    \/ \E a \in Addrs : Launch(a)
    \/ Advance
    \/ \E id \in TimerIds : TimerFires(id)
    \/ \E k \in TickIds : FetchListed(k)
    \/ \E k \in TickIds : FetchFails(k)
    \/ \E k \in TickIds : FetchRateLimited(k)
    \/ \E k \in TickIds : FilterLookupFails(k)
    \/ \E k \in TickIds : FilterLookupAnswers(k)
    \/ \E k \in TickIds : AlertDelivered(k)
    \/ \E k \in TickIds : AlertFails(k)

SpecFeed == InitFeed /\ [][NextFeed]_vars

\* Overlapping ticks: the bot is started, subscribers are enabled and disabled,
\* and a tick that waits for its filter query or for a delivery is still in
\* flight when the interval fires again.
InitOverlap ==
    /\ now = Epoch
    /\ monitoringEnabled = <<>>
    /\ monitoringIntervalId = 0
    /\ isRunning = FALSE
    /\ isInitialized = TRUE
    /\ initializationPromise = TRUE
    /\ initBodies = 0
    /\ timers = [id \in TimerIds |-> 0]
    /\ lastCheckedTimestamp = Epoch - LookbackMs
    /\ lastSeenTokens = [u \in Users |-> {}]
    /\ created = [a \in Addrs |-> IF a = "T2" THEN Epoch - ClockStep ELSE 0]
    /\ ticks = [k \in 1..MaxOverlap |-> IdleTick]
    /\ alerts = {}
    /\ matchCall = NoCall

NextOverlap ==
    \/ \E u \in Users : EnableMonitoring(u)
    \/ \E u \in Users : DisableMonitoring(u)
    \/ Advance
    \/ \E id \in TimerIds : TimerFires(id)
    \/ \E k \in TickIds : FetchFails(k)
    \/ \E k \in TickIds : FetchAnswers(k)
    \/ \E k \in TickIds : FilterLookupFails(k)
    \/ \E k \in TickIds : FilterLookupAnswers(k)
    \/ \E k \in TickIds : AlertDelivered(k)

SpecOverlap == InitOverlap /\ [][NextOverlap]_vars

\* Shutdown with ticks in flight: the overlapping ticks, and stop() called at
\* any moment.
NextStop ==
    \/ NextOverlap
    \/ Stop

SpecStop == InitOverlap /\ [][NextStop]_vars

\* A feed that is down for good (every request fails, as with an invalid API
\* key): the loop was armed at construction for any map with a subscriber
\* enabled, tokens are launched, the interval fires.  The event loop runs the
\* timers and settles the requests, so what can happen eventually does.
InitDown ==
    /\ now = Epoch
    /\ monitoringEnabled \in {m \in AllMaps : getActiveMonitoringCount(m) > 0}
    /\ monitoringIntervalId = 1
    /\ isRunning = TRUE
    /\ isInitialized = TRUE
    /\ initializationPromise = TRUE
    /\ initBodies = 0
    /\ timers = [id \in TimerIds |-> IF id = 1 THEN Epoch + IntervalMs ELSE 0]
    /\ lastCheckedTimestamp = Epoch - LookbackMs
    /\ lastSeenTokens = [u \in Users |-> {}]
    /\ created = [a \in Addrs |-> IF a = "T2" THEN Epoch - ClockStep ELSE 0]
    /\ ticks = [k \in 1..MaxTicks |-> IdleTick]
    /\ alerts = {}
    /\ matchCall = NoCall

NextDown ==
    \/ \E a \in Addrs : Launch(a)
    \/ Advance
    \/ \E id \in TimerIds : TimerFires(id)
    \/ \E k \in TickIds : FetchFails(k)

SpecDown == InitDown /\ [][NextDown]_vars /\ WF_vars(NextDown)

\* Monitoring left enabled for more than an hour: the loop of InitFeed polls a
\* feed that answers every request, and the ticks run to their end.
NextRetention ==
    \/ AdvanceRetention
    \/ \E id \in TimerIds : TimerFires(id)
    \/ \E k \in TickIds : FetchAnswers(k)
    \/ \E k \in TickIds : FilterLookupAnswers(k)
    \/ \E k \in TickIds : AlertDelivered(k)

SpecRetention == InitFeed /\ [][NextRetention]_vars

\* matchesFilter on its own: a token built by getNewTokens from a feed record
\* is matched against a filter as the builder stores it.
InitMatch ==
    /\ now = Epoch
    /\ monitoringEnabled = <<>>
    /\ monitoringIntervalId = 0
    /\ isRunning = FALSE
    /\ isInitialized = FALSE
    /\ initializationPromise = FALSE
    /\ initBodies = 0
    /\ timers = [id \in TimerIds |-> 0]
    /\ lastCheckedTimestamp = Epoch - LookbackMs
    /\ lastSeenTokens = [u \in Users |-> {}]
    /\ created = [a \in Addrs |-> IF a = "T2" THEN Epoch - ClockStep ELSE 0]
    /\ ticks = [k \in 1..MaxTicks |-> IdleTick]
    /\ alerts = {}
    /\ matchCall \in { [done |-> FALSE, record |-> r, filter |-> f, result |-> FALSE] :
                          r \in MatchRecords(Epoch), f \in BuiltFilters }

\* Line 783: this.telegram.matchesFilter(token, filter) on the token of the record.
CallMatchesFilter ==
    /\ ~matchCall.done
    /\ matchCall' =
           [matchCall EXCEPT
               !.done = TRUE,
               !.result = matchesFilter(WithMarketCap(TokenDataOf(matchCall.record, now)),
                                        matchCall.filter)]
    /\ UNCHANGED <<now, monitoringEnabled, monitoringIntervalId, isRunning,
                   isInitialized, initializationPromise, initBodies, timers,
                   lastCheckedTimestamp, lastSeenTokens, created, ticks, alerts>>

NextMatch == CallMatchesFilter

SpecMatch == InitMatch /\ [][NextMatch]_vars

\* The market-cap and liquidity checks of matchesFilter on their own: a token
\* that is trading, built from a record without the optional fields, against
\* every row of BoundFilters.
InitBounds ==
    /\ now = Epoch
    /\ monitoringEnabled = <<>>
    /\ monitoringIntervalId = 0
    /\ isRunning = FALSE
    /\ isInitialized = FALSE
    /\ initializationPromise = FALSE
    /\ initBodies = 0
    /\ timers = [id \in TimerIds |-> 0]
    /\ lastCheckedTimestamp = Epoch - LookbackMs
    /\ lastSeenTokens = [u \in Users |-> {}]
    /\ created = [a \in Addrs |-> IF a = "T2" THEN Epoch - ClockStep ELSE 0]
    /\ ticks = [k \in 1..MaxTicks |-> IdleTick]
    /\ alerts = {}
    /\ matchCall \in { [done |-> FALSE, record |-> r, filter |-> f, result |-> FALSE] :
                          r \in {x \in MatchRecords(Epoch) :
                                    /\ x.timestamp = Epoch
                                    /\ x.holdersCount = Null
                                    /\ x.devTokensPercentage = Null
                                    /\ x.tradingEnabled = "true"},
                          f \in BoundFilters }

NextBounds == CallMatchesFilter

SpecBounds == InitBounds /\ [][NextBounds]_vars

\* The valuation of one record on its way to filter evaluation.  A record of
\* T1, newer than the cursor, with every kind of price, liquidity and
\* fullyDilutedValuation field: absent, zero, a number, unparseable.
ValuedRecords(t) ==
    { [tokenAddress |-> "T1", timestamp |-> t, liquidity |-> l, priceUsd |-> p,
       fullyDilutedValuation |-> v] :
          l \in {Null, 0, 2, 5, NaN}, p \in {Null, 0, 1, 3, NaN}, v \in {Null, 0, 7} }

InitValue ==
    /\ now = Epoch
    /\ monitoringEnabled = <<>>
    /\ monitoringIntervalId = 0
    /\ isRunning = FALSE
    /\ isInitialized = FALSE
    /\ initializationPromise = FALSE
    /\ initBodies = 0
    /\ timers = [id \in TimerIds |-> 0]
    /\ lastCheckedTimestamp = Epoch - LookbackMs
    /\ lastSeenTokens = [u \in Users |-> {}]
    /\ created = [a \in Addrs |-> IF a = "T1" THEN Epoch ELSE 0]
    /\ ticks = [k \in 1..MaxTicks |-> IdleTick]
    /\ alerts = {}
    /\ matchCall \in { [done |-> FALSE, record |-> r, built |-> <<>>, evaluated |-> <<>>] :
                          r \in ValuedRecords(Epoch) }

\* getNewTokens on a response holding the record (part_004:259-311), then the
\* token loop of the tick up to the filter loop (index.ts:722-748): built is
\* the list getNewTokens returns, evaluated the tokens that reach line 750.
ValueRecord ==
    /\ ~matchCall.done
    /\ LET r == getNewTokens("u1", now, [kind |-> "ok", data |-> <<matchCall.record>>],
                             lastCheckedTimestamp, lastSeenTokens, now)
           reach == {n \in 1..Len(r.newTokens) : TokenValid(r.newTokens[n])}
       IN matchCall' =
              [matchCall EXCEPT
                  !.done = TRUE,
                  !.built = r.newTokens,
                  !.evaluated = IF reach = {} THEN <<>>
                                ELSE <<WithMarketCap(r.newTokens[1])>>]
    /\ UNCHANGED <<now, monitoringEnabled, monitoringIntervalId, isRunning,
                   isInitialized, initializationPromise, initBodies, timers,
                   lastCheckedTimestamp, lastSeenTokens, created, ticks, alerts>>

NextValue == ValueRecord

SpecValue == InitValue /\ [][NextValue]_vars

\* The shapes of a response body.  The provider answers with a bare array, or
\* with an object that has a data property (beside a result property or not)
\* or only a result property, each a list; an object with neither is an answer
\* in none of the known shapes.
Bodies(cr, t) ==
    { [isArray |-> TRUE, items |-> b, hasData |-> FALSE, data |-> <<>>,
       hasResult |-> FALSE, result |-> <<>>] : b \in Batches(cr, t) }
    \cup { [isArray |-> FALSE, items |-> <<>>, hasData |-> TRUE, data |-> x,
            hasResult |-> hr, result |-> <<>>] :
              x \in Batches(cr, t), hr \in BOOLEAN }
    \cup { [isArray |-> FALSE, items |-> <<>>, hasData |-> FALSE, data |-> <<>>,
            hasResult |-> TRUE, result |-> y] : y \in Batches(cr, t) }
    \cup { [isArray |-> FALSE, items |-> <<>>, hasData |-> FALSE, data |-> <<>>,
            hasResult |-> FALSE, result |-> <<>>] }

InitShape ==
    /\ now = Epoch
    /\ monitoringEnabled = <<>>
    /\ monitoringIntervalId = 0
    /\ isRunning = FALSE
    /\ isInitialized = FALSE
    /\ initializationPromise = FALSE
    /\ initBodies = 0
    /\ timers = [id \in TimerIds |-> 0]
    /\ lastCheckedTimestamp = Epoch - LookbackMs
    /\ lastSeenTokens = [u \in Users |-> {}]
    /\ created = [a \in Addrs |-> Epoch]
    /\ ticks = [k \in 1..MaxTicks |-> IdleTick]
    /\ alerts = {}
    /\ matchCall \in { [done |-> FALSE, body |-> b, threw |-> FALSE, newTokens |-> <<>>] :
                          b \in Bodies([a \in Addrs |-> Epoch], Epoch) }

\* getNewTokens when the request is answered with the body (part_004:241-326):
\* whether the call rejects, and the list it returns.
ReceiveBody ==
    /\ ~matchCall.done
    /\ LET r == getNewTokens("u1", now,
                             [kind |-> "ok", data |-> ResponseTokens(matchCall.body)],
                             lastCheckedTimestamp, lastSeenTokens, now)
       IN matchCall' = [matchCall EXCEPT !.done = TRUE, !.threw = r.threw,
                                         !.newTokens = r.newTokens]
    /\ UNCHANGED <<now, monitoringEnabled, monitoringIntervalId, isRunning,
                   isInitialized, initializationPromise, initBodies, timers,
                   lastCheckedTimestamp, lastSeenTokens, created, ticks, alerts>>

NextShape == ReceiveBody

SpecShape == InitShape /\ [][NextShape]_vars

\* A start-up that meets Telegram's rate limit.  The limit is temporary: it
\* can answer telegram.start() only before the first clock step.  start() is
\* called on every request (the handler, index.ts:872-875), requests keep
\* coming, Telegram answers every call and time passes; subscribers are enabled
\* and disabled meanwhile and the feed is down.
TelegramRateLimitedEarly ==
    /\ now < Epoch + ClockStep
    /\ TelegramRateLimited

NextRetry ==
    \/ Start
    \/ TelegramStarted
    \/ TelegramRateLimitedEarly
    \/ \E u \in Users : EnableMonitoring(u)
    \/ \E u \in Users : DisableMonitoring(u)
    \/ Advance
    \/ \E id \in TimerIds : TimerFires(id)
    \/ \E k \in TickIds : FetchFails(k)

SpecRetry ==
    /\ Init
    /\ [][NextRetry]_vars
    /\ WF_vars(Start)
    /\ WF_vars(TelegramStarted)
    /\ WF_vars(Advance)

\* ---------------------------------------------------------------- claims
\* C1: within one tick sendTokenAlert is called at most once for a (subscriber,
\* token address, filter) triple, whatever the feed lists (the same address
\* twice included) and whichever filters are active.
C1_AtMostOncePerTick ==
    \A k \in TickIds :
        \A a, b \in 1..Len(ticks[k].sent) :
            a # b => ticks[k].sent[a] # ticks[k].sent[b]

\* A tick that has called sendTokenAlert twice for one token.
C1_Witness ==
    \E k \in TickIds :
        \E a, b \in 1..Len(ticks[k].sent) :
            a # b /\ ticks[k].sent[a][2] = ticks[k].sent[b][2]

\* C2: a token address that a seen-set holds is not alerted on again by a later
\* tick that finds it in the feed, whichever enabled subscriber is first in the map.
C2_NoRealert ==
    \A k \in TickIds :
        ticks[k].pc = "alert" =>
            ticks[k].newTokens[ticks[k].i].address \notin ticks[k].dups

\* C3: over the life of the process a subscriber is alerted at most once for a
\* (token address, filter) pair: no sendTokenAlert call repeats an earlier triple.
C3_AtMostOncePerProcess ==
    [][\A k \in TickIds :
           Len(ticks'[k].sent) > Len(ticks[k].sent) =>
               ticks'[k].sent[Len(ticks'[k].sent)] \notin alerts]_vars

\* C4: a callback that runs while no subscriber is enabled starts no tick: no
\* feed request, no filter query, no alert.
C4_Quiescence ==
    getActiveMonitoringCount(monitoringEnabled) = 0 =>
        \A k \in TickIds : ticks[k].pc = "idle" /\ ticks[k].attempts = 0

\* The callback has just run with the loop marked running and nobody enabled.
C4_Witness ==
    /\ getActiveMonitoringCount(monitoringEnabled) = 0
    /\ isRunning
    /\ \E id \in TimerIds : timers[id] = now + IntervalMs

\* C5: two consecutive enableMonitoring(u) calls for a subscriber that is not
\* enabled raise the active count by one, reset the cursor exactly once between
\* them, and the second call changes nothing.
C5_EnableTwice ==
    \A u \in Users :
        isInitialized /\ ~MapGet(monitoringEnabled, u) =>
            LET s1 == enableMonitoring(HB, u, now)
                s2 == enableMonitoring(s1, u, now)
            IN /\ getActiveMonitoringCount(s2.monitoringEnabled)
                      = getActiveMonitoringCount(monitoringEnabled) + 1
               /\ s2 = s1
               /\ s2.resets = 1

\* C6: enableMonitoring(u) for a subscriber that is not enabled leaves the cursor
\* at now minus the look-back and every seen-set empty, in every state.
C6_EnableResets ==
    \A u \in Users :
        isInitialized /\ ~MapGet(monitoringEnabled, u) =>
            LET s1 == enableMonitoring(HB, u, now)
            IN /\ s1.lastCheckedTimestamp = now - LookbackMs
               /\ \A v \in Users : s1.lastSeenTokens[v] = {}

\* C7: disableMonitoring is idempotent; disabling the last enabled subscriber
\* clears the interval and isRunning; disabling one of several leaves the interval
\* as it was; and no interval is live while nobody is enabled.
C7_Disable ==
    /\ LiveTimers(timers) # {} => getActiveMonitoringCount(monitoringEnabled) > 0
    /\ \A u \in Users :
           LET s1 == disableMonitoring(HB, u, now)
               s2 == disableMonitoring(s1, u, now)
           IN /\ [s2 EXCEPT !.resets = 0] = [s1 EXCEPT !.resets = 0]
              /\ getActiveMonitoringCount(s1.monitoringEnabled) = 0 =>
                     /\ s1.monitoringIntervalId = 0
                     /\ ~s1.isRunning
                     /\ LiveTimers(s1.timers) = {}
              /\ getActiveMonitoringCount(s1.monitoringEnabled) > 0 =>
                     /\ s1.timers = timers
                     /\ s1.monitoringIntervalId = monitoringIntervalId

\* The last enabled subscriber has just been disabled: a flag is off, nobody is
\* enabled, the cursor was reset at this instant and no interval is left.
C7_Witness ==
    /\ now > Epoch
    /\ \E u \in Users : MapHas(monitoringEnabled, u) /\ ~MapGet(monitoringEnabled, u)
    /\ getActiveMonitoringCount(monitoringEnabled) = 0
    /\ lastCheckedTimestamp = now - LookbackMs
    /\ monitoringIntervalId = 0
    /\ ~isRunning

\* C8: at most one interval is live, and it is the one monitoringIntervalId names.
C8_SingleTimer ==
    /\ Cardinality(LiveTimers(timers)) <= 1
    /\ LiveTimers(timers) \subseteq {monitoringIntervalId}

\* Both subscribers are enabled and the loop was armed at this instant, after
\* construction: one interval is live.
C8_Witness ==
    /\ now > Epoch
    /\ getActiveMonitoringCount(monitoringEnabled) = Cardinality(Users)
    /\ lastCheckedTimestamp = now - LookbackMs
    /\ Cardinality(LiveTimers(timers)) = 1
    /\ timers[monitoringIntervalId] = now + IntervalMs

\* C9: a failed step of a tick (feed request, filter query, alert delivery)
\* leaves the interval and its next firing, the enabled flags and isRunning as
\* they were.
C9_FailureStaysInTick ==
    [][(\E k \in TickIds : FetchFails(k) \/ FilterLookupFails(k) \/ AlertFails(k)) =>
           /\ timers' = timers
           /\ monitoringIntervalId' = monitoringIntervalId
           /\ monitoringEnabled' = monitoringEnabled
           /\ isRunning' = isRunning
           /\ isInitialized' = isInitialized]_vars

\* A tick has ended after a failed delivery and the next firing is scheduled.
C9_Witness ==
    \E k \in TickIds :
        /\ ticks[k].pc = "idle"
        /\ ticks[k].failed = "alert"
        /\ isRunning
        /\ monitoringIntervalId # 0
        /\ timers[monitoringIntervalId] > now

\* C10: a tick calls getNewTokens at most maxRetries times; a failed feed request
\* ends the tick without an alert, with the enabled flags and the interval as
\* they were, so that the next firing polls again.
C10_FetchFailureAbandonsTick ==
    [][/\ \A k \in TickIds : ticks'[k].attempts <= maxRetries
       /\ \A k \in TickIds :
              FetchFails(k) =>
                  /\ ticks'[k].pc = "idle"
                  /\ ticks[k].sent = <<>>
                  /\ alerts' = alerts
                  /\ monitoringEnabled' = monitoringEnabled
                  /\ timers' = timers
                  /\ monitoringIntervalId' = monitoringIntervalId]_vars

\* A tick was abandoned on a failed feed request after its attempt, the
\* subscriber it polled for is still enabled and the next firing is scheduled.
C10_Witness ==
    \E k \in TickIds :
        /\ ticks[k].pc = "idle"
        /\ ticks[k].failed = "fetch"
        /\ ticks[k].attempts = 1
        /\ getActiveMonitoringCount(monitoringEnabled) > 0
        /\ monitoringIntervalId # 0
        /\ timers[monitoringIntervalId] > now

\* C11: a tick whose feed request is answered with HTTP 429 on an attempt before
\* its last one makes another attempt within the same tick (so that a success on
\* the third attempt is processed, once, and its alerts are sent).
C11_RateLimitRetriedInTick ==
    [][\A k \in TickIds :
           FetchRateLimited(k) /\ ticks[k].attempts < maxRetries =>
               /\ ticks'[k].pc = "fetch"
               /\ ticks'[k].attempts = ticks[k].attempts + 1]_vars

C14_NewIffFreshAndUnseen ==
    [][\A k \in TickIds :
           ticks[k].pc = "fetch" /\ ticks'[k].listed # <<>> =>
               LET data == ticks'[k].listed
                   seen == lastSeenTokens[ticks[k].userId]
                   Fresh == {data[n].tokenAddress :
                                n \in {m \in 1..Len(data) :
                                          /\ data[m].tokenAddress # NoAddr
                                          /\ Gt(ParseFloatOr0(data[m].liquidity), 0)
                                          /\ data[m].timestamp > lastCheckedTimestamp
                                          /\ data[m].tokenAddress \notin seen}}
                   returned == ticks'[k].newTokens
               IN /\ {returned[n].address : n \in 1..Len(returned)} = Fresh
                  /\ Len(returned) = Cardinality(Fresh)]_vars

\* A tick was answered with two listings that carry liquidity: one is returned
\* as new, the other (seen before, or not newer than the cursor) is not.
C14_Witness ==
    \E k \in TickIds :
        /\ ticks[k].pc = "filters"
        /\ Len(ticks[k].newTokens) = 1
        /\ Len(ticks[k].listed) = 2
        /\ \A n \in 1..2 : /\ ticks[k].listed[n].tokenAddress # NoAddr
                            /\ Gt(ParseFloatOr0(ticks[k].listed[n].liquidity), 0)
        /\ ticks[k].listed[1].tokenAddress # ticks[k].listed[2].tokenAddress

\* C15: an address that getNewTokens accepted, and so put into a seen-set, is
\* never accepted as new again by a later tick, whether or not the rest of the
\* accepting tick (filter query, evaluation, delivery) failed.
C15_AcceptedOnce ==
    \A k \in TickIds : ticks[k].dups = {}

\* C16: a feed record without an address, or with a liquidity that is zero,
\* absent or unparseable, never reaches matchesFilter and is never alerted on:
\* every token a tick evaluates, and every alert it sends, stems from a record of
\* its response that carries an address and a positive liquidity.
C16_BadRecordsDiscarded ==
    \A k \in TickIds :
        LET tk == ticks[k]
            good == {m \in 1..Len(tk.listed) :
                        /\ tk.listed[m].tokenAddress # NoAddr
                        /\ Gt(ParseFloatOr0(tk.listed[m].liquidity), 0)}
        IN /\ \A n \in 1..Len(tk.newTokens) :
                  TokenValid(tk.newTokens[n]) =>
                      \E m \in good :
                          /\ tk.listed[m].tokenAddress = tk.newTokens[n].address
                          /\ ParseFloatOr0(tk.listed[m].liquidity) = tk.newTokens[n].liquidity
           /\ \A n \in 1..Len(tk.sent) :
                  \E m \in good : tk.listed[m].tokenAddress = tk.sent[n][2]

\* A tick is delivering an alert for the second record of a response whose
\* first record carries no address, or no usable liquidity.
C16_Witness ==
    \E k \in TickIds :
        /\ ticks[k].pc = "alert"
        /\ Len(ticks[k].listed) = 2
        /\ \/ ticks[k].listed[1].tokenAddress = NoAddr
           \/ ticks[k].listed[1].liquidity \in {0, Null, NaN}
        /\ ticks[k].sent[1][2] = ticks[k].listed[2].tokenAddress
        /\ ticks[k].listed[1].tokenAddress # ticks[k].listed[2].tokenAddress

\* C17: in a tick, every (new token, active filter of an enabled subscriber)
\* pair is evaluated with matchesFilter and alerted on when it matches, filters
\* with holder, dev-holdings or contract-age bounds included: of the pairs the
\* loops have passed, every matching one has had its alert sent.
C17_EveryFilterEvaluated ==
    \A k \in TickIds :
        ticks[k].pc = "alert" =>
            \A i \in 1..Len(ticks[k].newTokens), j \in 1..Len(ticks[k].filters) :
                LET token == ticks[k].newTokens[i]
                    filter == FilterTable[ticks[k].filters[j]]
                IN (/\ i < ticks[k].i \/ (i = ticks[k].i /\ j <= ticks[k].j)
                    /\ TokenValid(token)
                    /\ MapGet(monitoringEnabled, filter.user_id)
                    /\ matchesFilter(WithMarketCap(token), filter))
                   => \E n \in 1..Len(ticks[k].sent) :
                          ticks[k].sent[n] = <<filter.user_id, token.address, filter.id>>

\* C18: a bound on a field the feed record does not carry (holders count, dev
\* holdings) is ignored: the result of matchesFilter is that of the filter with
\* those bounds taken out.
C18_MissingDataIgnored ==
    matchCall.done =>
        LET r == matchCall.record
            others == [matchCall.filter EXCEPT
                          !.min_holders = IF r.holdersCount = Null THEN Null ELSE @,
                          !.max_holders = IF r.holdersCount = Null THEN Null ELSE @,
                          !.max_dev_tokens = IF r.devTokensPercentage = Null
                                             THEN Null ELSE @]
        IN matchCall.result
               = matchesFilter(WithMarketCap(TokenDataOf(r, now)), others)

\* C19: a filter whose trading_enabled is true or false matches only tokens
\* whose tradingEnabled is the same, whatever the other bounds of the filter.
C19_TradingStatusExact ==
    (/\ matchCall.done
     /\ matchCall.filter.trading_enabled \in {"true", "false"}
     /\ matchCall.result)
    => TokenDataOf(matchCall.record, now).tradingEnabled
           = matchCall.filter.trading_enabled

\* A filter for tokens that are not trading, with holder, dev-holdings and
\* market-cap bounds, has matched a token listed as not trading whose record
\* carries neither holders count nor dev holdings.
C19_Witness ==
    /\ matchCall.done
    /\ matchCall.result
    /\ matchCall.filter.trading_enabled = "false"
    /\ matchCall.record.tradingEnabled = "false"
    /\ matchCall.filter.max_holders # Null
    /\ matchCall.filter.max_dev_tokens # Null
    /\ matchCall.filter.min_market_cap # Null
    /\ matchCall.record.holdersCount = Null
    /\ matchCall.record.devTokensPercentage = Null

\* C20: a filter stored with trading_enabled NULL (the builder's trading step
\* was skipped) matches every token that satisfies its numeric bounds.
C20_UnconstrainedTradingPasses ==
    (/\ matchCall.done
     /\ matchCall.filter.trading_enabled = "null"
     /\ LET token == WithMarketCap(TokenDataOf(matchCall.record, now))
        IN matchesFilter(token, [matchCall.filter EXCEPT
                                    !.trading_enabled = token.tradingEnabled]))
    => matchCall.result

C22_DeliveryFailureContained ==
    [][\A k \in TickIds :
           AlertFails(k) =>
               LET tk == ticks[k]
                   After(i, j) == i > tk.i \/ (i = tk.i /\ j > tk.j)
                   Due == {p \in (1..Len(tk.newTokens)) \X (1..Len(tk.filters)) :
                              /\ After(p[1], p[2])
                              /\ Sends(tk.newTokens, tk.filters, p[1], p[2],
                                       monitoringEnabled)}
               IN /\ lastCheckedTimestamp' = lastCheckedTimestamp
                  /\ lastSeenTokens' = lastSeenTokens
                  /\ Due = {} => ticks'[k].pc = "idle"
                  /\ Due # {} =>
                         /\ ticks'[k].pc = "alert"
                         /\ <<ticks'[k].i, ticks'[k].j>> \in Due
                         /\ \A p \in Due :
                                \/ p[1] > ticks'[k].i
                                \/ (p[1] = ticks'[k].i /\ p[2] >= ticks'[k].j)
                         /\ Len(ticks'[k].sent) = Len(tk.sent) + 1]_vars

\* A delivery of the tick failed and the tick is delivering the alert of a later
\* (token, filter) pair.
C22_Witness ==
    \E k \in TickIds :
        /\ ticks[k].pc = "alert"
        /\ ticks[k].failed = "alert"
        /\ Len(ticks[k].sent) >= 2
        /\ lastCheckedTimestamp = ticks[k].currentTime
        /\ ticks[k].newTokens[ticks[k].i].address \in lastSeenTokens[ticks[k].userId]

\* C23: when the query for the active filters fails, the tick ends without
\* having sent an alert and without evaluating any filter, and the interval
\* stays armed with its next firing as scheduled.
C23_FilterLookupFailureEndsTick ==
    [][\A k \in TickIds :
           FilterLookupFails(k) =>
               /\ ticks[k].sent = <<>>
               /\ ticks'[k].pc = "idle"
               /\ ticks'[k].filters = <<>>
               /\ alerts' = alerts
               /\ monitoringIntervalId' = monitoringIntervalId
               /\ timers' = timers
               /\ timers'[monitoringIntervalId'] # 0]_vars

\* A tick that had accepted a token ended on a failed filter query; the interval
\* is live and its next firing lies ahead.
C23_Witness ==
    \E k \in TickIds :
        /\ ticks[k].pc = "idle"
        /\ ticks[k].failed = "filters"
        /\ lastCheckedTimestamp = now
        /\ lastSeenTokens["u1"] # {}
        /\ alerts = {}
        /\ timers[monitoringIntervalId] = now + IntervalMs

\* C24: stop() leaves no interval live, and a tick starts only while the loop
\* runs on a live interval, so none starts after stop(); a tick in flight at
\* stop() writes the cursor and the seen-set together or not at all: whenever a
\* seen-set grows, the cursor is the start time of the tick that accepted.
C24_StopClearsTimer ==
    [][/\ Stop => /\ LiveTimers(timers') = {}
                  /\ monitoringIntervalId' = 0
                  /\ ~isRunning'
       /\ \A k \in TickIds :
              ticks[k].pc = "idle" /\ ticks'[k].pc # "idle" =>
                  /\ isRunning
                  /\ monitoringIntervalId # 0
                  /\ timers[monitoringIntervalId] # 0
       /\ \A k \in TickIds :
              ticks[k].pc = "fetch" /\ ticks'[k].pc # "fetch" =>
                  \/ /\ lastCheckedTimestamp' = lastCheckedTimestamp
                     /\ lastSeenTokens' = lastSeenTokens
                     /\ ticks'[k].pc = "idle"
                  \/ /\ lastCheckedTimestamp' = ticks[k].currentTime
                     /\ \A u \in Users : lastSeenTokens[u] \subseteq lastSeenTokens'[u]]_vars

\* stop() was called while a tick was waiting for the feed: the tick is still in
\* flight, no interval is live and a subscriber is still enabled.
C24_Witness ==
    /\ ~initializationPromise
    /\ ~isRunning
    /\ LiveTimers(timers) = {}
    /\ getActiveMonitoringCount(monitoringEnabled) > 0
    /\ \E k \in TickIds : ticks[k].pc = "fetch"

C26_CursorIsMaxTimestamp ==
    [][\A k \in TickIds :
           ticks[k].pc = "fetch" /\ ticks'[k].listed # <<>> =>
               LET data == ticks'[k].listed
               IN /\ \E n \in 1..Len(data) : lastCheckedTimestamp' = data[n].timestamp
                  /\ \A n \in 1..Len(data) : lastCheckedTimestamp' >= data[n].timestamp]_vars

\* C27: when the feed answers with an empty list, the cursor moves forward by a
\* fixed step: it neither stays where it was nor jumps to the current time.
C27_EmptyBatchAdvances ==
    [][\A k \in TickIds :
           (/\ ticks[k].pc = "fetch"
            /\ ticks'[k].pc = "idle"
            /\ ticks'[k].failed = ""
            /\ ticks'[k].listed = <<>>)
           => /\ lastCheckedTimestamp' > lastCheckedTimestamp
              /\ lastCheckedTimestamp' < ticks[k].currentTime]_vars

\* C28: an address does not stay in a seen-set beyond the retention window: it
\* is added by the first poll that lists it and is gone by the second poll
\* after the window has passed.
C28_SeenSetRetention ==
    \A u \in Users :
        \A a \in lastSeenTokens[u] :
            now - created[a] <= RetentionMs + 2 * IntervalMs

\* C29: a failed feed request (timeout, HTTP error status, 429, network error)
\* leaves the cursor and every seen-set exactly as they were, and they change in
\* a tick only on a step that takes in a response.
C29_FailedFetchFrame ==
    [][/\ \A k \in TickIds :
              FetchFails(k) \/ FetchRateLimited(k) =>
                  /\ lastCheckedTimestamp' = lastCheckedTimestamp
                  /\ lastSeenTokens' = lastSeenTokens
       /\ (lastCheckedTimestamp' # lastCheckedTimestamp \/ lastSeenTokens' # lastSeenTokens)
              => \E k \in TickIds :
                     /\ ticks[k].pc = "fetch"
                     /\ ticks'[k].listed # <<>>
                     /\ ticks'[k].failed = ""]_vars

\* A tick accepted a token and moved the cursor; the next tick's request failed
\* and the cursor and the seen-set are still those the first tick left.
C29_Witness ==
    \E k \in TickIds :
        /\ ticks[k].pc = "idle"
        /\ ticks[k].failed \in {"fetch", "429"}
        /\ lastCheckedTimestamp = Epoch + IntervalMs
        /\ now >= Epoch + 2 * IntervalMs
        /\ lastSeenTokens["u1"] # {}

\* C30: the tokens subscriber B is alerted on do not depend on what another
\* subscriber A does: from any state in which B is enabled and the loop is
\* armed, a tick answered with the same response alerts B on the same tokens
\* whether or not A has toggled monitoring just before the tick.
C30_SubscriberIsolation ==
    \A A, B \in Users :
        (A # B /\ isInitialized /\ monitoringIntervalId # 0
              /\ MapGet(monitoringEnabled, B)) =>
            LET toggled == IF MapGet(monitoringEnabled, A)
                           THEN disableMonitoring(HB, A, now)
                           ELSE enableMonitoring(HB, A, now)
                AlertedOn(s, data) ==
                    LET r == getNewTokens(First(ActiveUsers(s.monitoringEnabled)), now,
                                          [kind |-> "ok", data |-> data],
                                          s.lastCheckedTimestamp, s.lastSeenTokens, now)
                    IN {r.newTokens[n].address :
                           n \in {m \in 1..Len(r.newTokens) :
                                     \E j \in FilterIds :
                                         /\ FilterTable[j].user_id = B
                                         /\ Sends(r.newTokens, ActiveFilters(FilterIds),
                                                  m, j, s.monitoringEnabled)}}
            IN \A data \in Batches(created, now) :
                   AlertedOn(HB, data) = AlertedOn(toggled, data)

\* C31: for a record without fullyDilutedValuation the token is built with
\* market cap price * liquidity when price and liquidity are both non-zero
\* numbers and liquidity * 2 otherwise, and a record with positive liquidity
\* reaches the filter loop with a positive market cap.
C31_MarketCapFallback ==
    (matchCall.done /\ matchCall.record.fullyDilutedValuation = Null) =>
        LET p == matchCall.record.priceUsd
            l == matchCall.record.liquidity
            numeric(x) == x # Null /\ x # NaN /\ x # 0
        IN /\ \A n \in 1..Len(matchCall.built) :
                  matchCall.built[n].marketCap =
                      IF numeric(p) /\ numeric(l) THEN p * l ELSE l * 2
           /\ (numeric(l) /\ l > 0) =>
                  /\ Len(matchCall.evaluated) = 1
                  /\ matchCall.evaluated[1].liquidity = l
                  /\ matchCall.evaluated[1].marketCap > 0

C31_Witness ==
    /\ matchCall.done
    /\ matchCall.record.fullyDilutedValuation = Null
    /\ matchCall.record.priceUsd = Null
    /\ matchCall.record.liquidity = 5
    /\ Len(matchCall.evaluated) = 1
    /\ matchCall.evaluated[1].marketCap = 10

\* C32: the list of a response is its bare array, else its data property, else
\* its result property, and a response in none of these shapes makes the fetch
\* fail instead of returning as an empty batch.
C32_MalformedResponseFails ==
    matchCall.done =>
        LET b == matchCall.body
            malformed == ~b.isArray /\ ~b.hasData /\ ~b.hasResult
            list == IF b.isArray THEN b.items
                    ELSE IF b.hasData THEN b.data ELSE b.result
        IN IF malformed
           THEN matchCall.threw
           ELSE /\ ~matchCall.threw
                /\ matchCall.newTokens =
                       AcceptAll(list, {}, Epoch - LookbackMs, now).newTokens

\* C33: after a feed request answered with status 429 the tick waits the
\* retry-after seconds (1 when none is given) plus one second before its next
\* attempt, and after any other failed attempt number n (n = 1, 2) it waits
\* 2000 ms * 2^(n-1).
C33_RetryDelays ==
    [][\A k \in TickIds :
           /\ FetchRateLimited(k) =>
                  ticks'[k].wakeAt = now + 1 * 1000 + 1000
           /\ (FetchFails(k) /\ ticks[k].attempts \in {1, 2}) =>
                  /\ ticks'[k].pc = "fetch"
                  /\ ticks'[k].attempts = ticks[k].attempts + 1
                  /\ ticks'[k].wakeAt = now + 2000 * 2 ^ (ticks[k].attempts - 1)]_vars

\* C34: whenever start() has been called and neither stop() nor a failed
\* initialization has reset it since, and at least one subscriber is enabled,
\* the interval timer is armed.
C34_EnabledImpliesArmed ==
    (initializationPromise /\ getActiveMonitoringCount(monitoringEnabled) > 0) =>
        /\ monitoringIntervalId # 0
        /\ timers[monitoringIntervalId] # 0

C36_NoDispatchToDisabled ==
    [][\A k \in TickIds :
           Len(ticks'[k].sent) > Len(ticks[k].sent) =>
               LET key == ticks'[k].sent[Len(ticks'[k].sent)]
               IN /\ MapGet(monitoringEnabled, key[1])
                  /\ MapGet(monitoringEnabled', key[1])]_vars

\* A tick that polled for u1 has begun a delivery to u2 while u1, disabled in
\* the meantime, has been sent nothing by it.
C36_Witness ==
    \E k \in TickIds :
        /\ ticks[k].pc = "alert"
        /\ ticks[k].userId = "u1"
        /\ MapHas(monitoringEnabled, "u1") /\ ~MapGet(monitoringEnabled, "u1")
        /\ ticks[k].sent # <<>>
        /\ \A n \in 1..Len(ticks[k].sent) : ticks[k].sent[n][1] = "u2"

\* C37: an initialization body is started only when no initialization promise
\* is cached, and starting it caches one; the cached promise is dropped only by
\* stop() or by a failed initialization.  So between two resets the body, and
\* its clearing of the enabled map, runs at most once.
C37_SingleFlightStart ==
    [][/\ initBodies' > initBodies =>
              /\ ~initializationPromise
              /\ initializationPromise'
              /\ initBodies' = initBodies + 1
       /\ (initializationPromise /\ ~initializationPromise') =>
              (Stop \/ TelegramFailed)
       /\ (initializationPromise /\ initializationPromise' /\ initBodies = 0
              /\ monitoringEnabled # <<>>) =>
              monitoringEnabled' # <<>>]_vars

\* The initialization has succeeded, its promise is cached, and a subscriber
\* enabled since then is still in the map, which a second run of the body
\* would have cleared.
C37_Witness ==
    /\ initializationPromise
    /\ initBodies = 0
    /\ isInitialized
    /\ getActiveMonitoringCount(monitoringEnabled) > 0
    /\ now > Epoch

\* C38: once telegram.start() has been rate-limited inside start() (a promise
\* is cached, no body is in flight, the bot is not initialized), a later
\* start() call retries and the bot eventually becomes initialized.
C38_RateLimitedStartRetried ==
    (initializationPromise /\ initBodies = 0 /\ ~isInitialized) ~> isInitialized

====
